---------------------------- MODULE Spec2Model ----------------------------
(***************************************************************************)
(* Model of contribution_redistributor.py (class ContributionRedistributor).*)
(*                                                                         *)
(* Spec        : run(), with the commit extraction loop, the analysis and  *)
(*               the single forward pass of create_redistribution_plan.    *)
(* SpecTwice   : Spec plus a second call of create_redistribution_plan on  *)
(*               the same object (the random generator's state carries     *)
(*               over between the two calls).                              *)
(* SpecGap     : analyze_contributions on pools spread over a wider window *)
(*               and several thresholds.                                   *)
(* SpecCollect : get_commits_from_repo, line by line, on the text printed  *)
(*               by git log --pretty=format:%H|%aI|%s|%ae.                 *)
(*                                                                         *)
(* Dates are proleptic Gregorian ordinals (date.toordinal()); a timestamp  *)
(* is [day, hour, off]: local calendar date, local time of day and UTC     *)
(* offset, both in hours.  Strings are sequences of one-character strings. *)
(***************************************************************************)
EXTENDS Integers, Sequences, FiniteSets, TLC

\* ------------------------------------------------------------------ bounds
MaxCommits == 3     \* commits collected by one run
NumDays == 3        \* calendar days the collected commits are drawn from
GapPool == 5        \* commits in a pool given to the analysis alone
GapDays == 10       \* calendar days those commits are drawn from
MaxLines == 2       \* lines printed by git log
MaxSubjectLen == 2  \* characters of a commit subject

\* ------------------------------------------------------ program constants
DefaultMaxGapDays == 7
WeekendLow == 6
WeekendHigh == 10
WeekdayLow == 2
WeekdayHigh == 6
SplitMax == 3
FieldCount == 4

\* self.github_email when no address is configured: None and '' are both falsy
NoEmail == <<>>
LogFile == "redistribution_log.txt"
ScriptFile == "rewrite_history.sh"

\* ------------------------------------------------------------ datetime
\* date(year, month, day).toordinal()
IsLeap(y) == y % 4 = 0 /\ (y % 100 # 0 \/ y % 400 = 0)

DaysBeforeMonth(y, m) ==
    LET tab == <<0, 31, 59, 90, 120, 151, 181, 212, 243, 273, 304, 334>>
    IN  tab[m] + (IF m > 2 /\ IsLeap(y) THEN 1 ELSE 0)

DaysInMonth(y, m) ==
    LET tab == <<31, 28, 31, 30, 31, 30, 31, 31, 30, 31, 30, 31>>
    IN  tab[m] + (IF m = 2 /\ IsLeap(y) THEN 1 ELSE 0)

Ymd2Ord(y, m, d) ==
    LET p == y - 1
    IN  p * 365 + (p \div 4) - (p \div 100) + (p \div 400) + DaysBeforeMonth(y, m) + d

\* date.fromordinal(n): <<year, month, day>>
Ord2Ymd(n) ==
    LET n0   == n - 1
        n400 == n0 \div 146097
        r400 == n0 % 146097
        n100 == r400 \div 36524
        r100 == r400 % 36524
        n4   == r100 \div 1461
        r4   == r100 % 1461
        n1   == r4 \div 365
        r1   == r4 % 365
        year == n400 * 400 + 1 + n100 * 100 + n4 * 4 + n1
        leap == n1 = 3 /\ (n4 # 24 \/ n100 = 3)
        m0   == (r1 + 50) \div 32
        p0   == DaysBeforeMonth(2001, m0) + (IF m0 > 2 /\ leap THEN 1 ELSE 0)
        month == IF p0 > r1 THEN m0 - 1 ELSE m0
        prec  == IF p0 > r1
                 THEN p0 - (DaysInMonth(2001, m0 - 1) + (IF m0 - 1 = 2 /\ leap THEN 1 ELSE 0))
                 ELSE p0
    IN  IF n1 = 4 \/ n100 = 4
        THEN <<year - 1, 12, 31>>
        ELSE <<year, month, r1 - prec + 1>>

\* int(date.strftime('%Y%m%d'))
SeedOf(date) ==
    LET ymd == Ord2Ymd(date)
    IN  ymd[1] * 10000 + ymd[2] * 100 + ymd[3]

\* date.weekday(): Monday = 0 ... Sunday = 6
Weekday(date) == (date + 6) % 7

IsWeekend(date) == Weekday(date) >= 5

\* the key two timezone-aware datetimes are compared by: the instant, in hours
Instant(ts) == ts.day * 24 + ts.hour - ts.off

\* datetime.combine(date, t.time()).replace(tzinfo=t.tzinfo)
CombineMidnight(date, ts) == [day |-> date, hour |-> 0, off |-> ts.off]

Combine(date, ts) == [day |-> date, hour |-> ts.hour, off |-> ts.off]

\* --------------------------------------------------------------- random
\* The Mersenne Twister's first _randbelow(5) after random.seed(seed), for
\* the seeds of 2023-12-28 .. 2024-01-26 (randint(a, a+4) = a + _randbelow(5)).
FirstBelow5(seed) ==
    CASE seed = 20231228 -> 4 [] seed = 20231229 -> 4 [] seed = 20231230 -> 4
      [] seed = 20231231 -> 2 [] seed = 20240101 -> 1 [] seed = 20240102 -> 3
      [] seed = 20240103 -> 4 [] seed = 20240104 -> 4 [] seed = 20240105 -> 0
      [] seed = 20240106 -> 1 [] seed = 20240107 -> 3 [] seed = 20240108 -> 4
      [] seed = 20240109 -> 2 [] seed = 20240110 -> 0 [] seed = 20240111 -> 0
      [] seed = 20240112 -> 1 [] seed = 20240113 -> 2 [] seed = 20240114 -> 0
      [] seed = 20240115 -> 4 [] seed = 20240116 -> 0 [] seed = 20240117 -> 3
      [] seed = 20240118 -> 4 [] seed = 20240119 -> 2 [] seed = 20240120 -> 4
      [] seed = 20240121 -> 3 [] seed = 20240122 -> 1 [] seed = 20240123 -> 1
      [] seed = 20240124 -> 4 [] seed = 20240125 -> 3 [] seed = 20240126 -> 1

\* The generator as the program sees it: freshly seeded with a known seed and
\* nothing drawn yet, or in some state the seed no longer determines.
RngUnknown == [seeded |-> FALSE, seed |-> 0]

\* random.seed(s)
RandomSeed(s) == [seeded |-> TRUE, seed |-> s]

\* random.randint(lo, hi): the values the call can return in state r
RandInt(r, lo, hi) ==
    IF r.seeded /\ hi - lo = 4
    THEN {lo + FirstBelow5(r.seed)}
    ELSE lo .. hi

\* lines 163-171 without the call of random.seed
SeedAndDrawNoSeed(r, date) ==
    IF IsWeekend(date)
    THEN RandInt(r, WeekendLow, WeekendHigh)
    ELSE RandInt(r, WeekdayLow, WeekdayHigh)

\* lines 163-171 with the two ranges exchanged
SeedAndDrawSwapped(r, date) ==
    IF IsWeekend(date)
    THEN RandInt(RandomSeed(SeedOf(date)), WeekdayLow, WeekdayHigh)
    ELSE RandInt(RandomSeed(SeedOf(date)), WeekendLow, WeekendHigh)

\* lines 163-171: the target counts the draw for `date` can give when the
\* generator is in state r before the call of random.seed
SeedAndDraw(r, date) ==
    IF IsWeekend(date)
    THEN RandInt(RandomSeed(SeedOf(date)), WeekendLow, WeekendHigh)
    ELSE RandInt(RandomSeed(SeedOf(date)), WeekdayLow, WeekdayHigh)

\* ------------------------------------------------------------ sequences
Min(a, b) == IF a <= b THEN a ELSE b

RECURSIVE Flatten(_)
Flatten(groups) ==
    IF groups = <<>> THEN <<>>
    ELSE Head(groups).commits \o Flatten(Tail(groups))

\* s with x put after the last element whose key is <= x's (stable insertion)
RECURSIVE InsertByDate(_, _)
InsertByDate(s, x) ==
    IF s = <<>> THEN <<x>>
    ELSE IF Instant(s[Len(s)].date) <= Instant(x.date)
         THEN Append(s, x)
         ELSE Append(InsertByDate(SubSeq(s, 1, Len(s) - 1), x), s[Len(s)])

RECURSIVE StableSort(_)
StableSort(s) ==
    IF s = <<>> THEN <<>>
    ELSE InsertByDate(StableSort(SubSeq(s, 1, Len(s) - 1)), s[Len(s)])

\* all_commits.sort(...) left out
SortByDateUnsorted(s) == s

\* all_commits.sort(key=lambda x: x['date'])
SortByDate(s) == StableSort(s)

\* the keys of ideal_distribution, ascending: first, first + 1, ..., last
DateRange(first, last) ==
    IF first > last THEN <<>>
    ELSE [i \in 1 .. (last - first + 1) |-> first + i - 1]


RECURSIVE SortedDates(_)
SortedDates(S) ==
    IF S = {} THEN <<>>
    ELSE LET m == CHOOSE x \in S : \A y \in S : x <= y
         IN  <<m>> \o SortedDates(S \ {m})

\* -------------------------------------------------------------- inputs
FirstDay == Ymd2Ord(2024, 1, 5)
Days == FirstDay .. (FirstDay + NumDays - 1)
\* author timestamps: early and late on each day at UTC, and an early one on
\* the second day written with the offset +14:00
Timestamps ==
    { [day |-> d, hour |-> h, off |-> 0] : d \in Days, h \in {1, 23} }
        \cup { [day |-> FirstDay + 1, hour |-> 1, off |-> 14] }
\* how many repositories the base directory may hold
RepoCounts == {0, 1, 2}

GapFirstDay == Ymd2Ord(2024, 1, 1)
GapThresholds == {0, 2, DefaultMaxGapDays}

VARIABLES
    pc,                    \* where run() (or the function under study) stands
    outcome,               \* the message run() ended with
    max_gap_days,          \* self.max_gap_days
    github_email,          \* self.github_email
    repos,                 \* run: repos
    ri,                    \* run: index of the repository being read
    collected,             \* run: all_commits
    commits_by_date,       \* self.commits_by_date, in insertion order
    date_counts,           \* analyze_contributions: date_counts
    gaps,                  \* analyze_contributions: gaps
    all_commits,           \* create_redistribution_plan: all_commits
    ideal_distribution,    \* sorted(ideal_distribution.keys())
    di,                    \* index of the date the loop of line 162 is at
    commits_to_distribute, \* create_redistribution_plan: commits_to_distribute
    plan,                  \* create_redistribution_plan: plan
    days,                  \* per date processed: target_count, actual_count, day_commits
    rng,                   \* the state of the module-level random generator
    files,                 \* the files written, in the order of writing
    run_no,                \* calls of create_redistribution_plan begun
    prev,                  \* plan and days of the previous call
    git_log,               \* the commits git log lists for the repository
    stdout,                \* result.stdout.strip().split('\n')
    li,                    \* index of the line the loop of line 55 is at
    commits                \* get_commits_from_repo: commits

vars == << pc, outcome, max_gap_days, github_email, repos, ri, collected,
           commits_by_date, date_counts, gaps, all_commits, ideal_distribution,
           di, commits_to_distribute, plan, days, rng, files, run_no, prev,
           git_log, stdout, li, commits >>

runVars     == << repos, ri, collected >>
analysisVars == << date_counts, gaps >>
planVars    == << all_commits, ideal_distribution, di, commits_to_distribute, plan, days >>
collectVars == << git_log, stdout, li, commits >>
configVars  == << max_gap_days, github_email >>

EmptyPlan == [h \in {} |-> 0]

\* ------------------------------------------------------------- __init__
Init ==
    /\ pc = "run"
    /\ outcome = ""
    /\ max_gap_days = DefaultMaxGapDays
    /\ github_email = NoEmail
    /\ repos = <<>>
    /\ ri = 1
    /\ collected = <<>>
    /\ commits_by_date = <<>>
    /\ date_counts = EmptyPlan
    /\ gaps = <<>>
    /\ all_commits = <<>>
    /\ ideal_distribution = <<>>
    /\ di = 1
    /\ commits_to_distribute = <<>>
    /\ plan = EmptyPlan
    /\ days = <<>>
    /\ rng = RngUnknown
    /\ files = <<>>
    /\ run_no = 0
    /\ prev = [plan |-> EmptyPlan, days |-> <<>>]
    /\ git_log = <<>>
    /\ stdout = <<>>
    /\ li = 1
    /\ commits = <<>>

\* ------------------------------------------------------------------ run
\* lines 376-384: find_git_repos, and the return when there is none
FindRepos ==
    /\ pc = "run"
    /\ \E n \in RepoCounts :
          /\ repos' = [i \in 1 .. n |-> i]
          /\ IF n = 0
             THEN pc' = "returned" /\ outcome' = "no_repos"
             ELSE pc' = "collect" /\ outcome' = outcome
    /\ UNCHANGED << configVars, ri, collected, commits_by_date, analysisVars,
                    planVars, rng, files, run_no, prev, collectVars >>

\* a commit git log lists for the first time: its hash is new
FreshCommits(repo) ==
    { [hash |-> Len(collected) + 1, date |-> t, message |-> <<"subject", Len(collected) + 1>>,
       email |-> "me", repo |-> repo] : t \in Timestamps }

\* a commit of another repository that this repository holds too (a clone)
ClonedCommits(repo) ==
    { [collected[i] EXCEPT !.repo = repo] :
        i \in { j \in DOMAIN collected :
                  /\ collected[j].repo # repo
                  /\ \A k \in DOMAIN collected :
                        collected[k].repo = repo => collected[k].hash # collected[j].hash } }

\* lines 390-392, one record of get_commits_from_repo(repo) at a time
CollectCommit ==
    /\ pc = "collect"
    /\ ri <= Len(repos)
    /\ Len(collected) < MaxCommits
    /\ \E c \in FreshCommits(repos[ri]) \cup ClonedCommits(repos[ri]) :
          collected' = Append(collected, c)
    /\ UNCHANGED << pc, outcome, configVars, repos, ri, commits_by_date, analysisVars,
                    planVars, rng, files, run_no, prev, collectVars >>

\* line 393: the repository is read, on to the next
CollectNextRepo ==
    /\ pc = "collect"
    /\ ri <= Len(repos)
    /\ ri' = ri + 1
    /\ UNCHANGED << pc, outcome, configVars, repos, collected, commits_by_date,
                    analysisVars, planVars, rng, files, run_no, prev, collectVars >>

\* lines 400-404: the commits grouped by repository, in order of first appearance
RECURSIVE GroupByRepo(_, _)
GroupByRepo(groups, cs) ==
    IF cs = <<>> THEN groups
    ELSE LET c == Head(cs)
             known == \E g \in DOMAIN groups : groups[g].repo = c.repo
             next == IF known
                     THEN [g \in DOMAIN groups |->
                             IF groups[g].repo = c.repo
                             THEN [groups[g] EXCEPT !.commits = Append(@, c)]
                             ELSE groups[g]]
                     ELSE Append(groups, [repo |-> c.repo, commits |-> <<c>>])
         IN  GroupByRepo(next, Tail(cs))

\* lines 395-404: the return on an empty pool, else the pool is stored
StoreCommits ==
    /\ pc = "collect"
    /\ ri > Len(repos)
    /\ IF collected = <<>>
       THEN /\ pc' = "returned"
            /\ outcome' = "no_commits"
            /\ UNCHANGED commits_by_date
       ELSE /\ pc' = "analyze"
            /\ outcome' = outcome
            /\ commits_by_date' = GroupByRepo(commits_by_date, collected)
    /\ UNCHANGED << configVars, runVars, analysisVars, planVars, rng, files,
                    run_no, prev, collectVars >>

\* ------------------------------------------------ analyze_contributions
\* lines 86-91
DateCounts(groups) ==
    LET cs == Flatten(groups)
        ds == { cs[i].date.day : i \in DOMAIN cs }
    IN  [d \in ds |-> Cardinality({ i \in DOMAIN cs : cs[i].date.day = d })]

GapExceedsInclusive(gap_days, threshold) == gap_days >= threshold

\* line 119
GapExceeds(gap_days, threshold) == gap_days > threshold

\* lines 114-126, from index i of all_dates on
RECURSIVE GapsFrom(_, _, _, _)
GapsFrom(all_dates, counts, threshold, i) ==
    IF i > Len(all_dates) - 1 THEN <<>>
    ELSE LET current == all_dates[i]
             next_date == all_dates[i + 1]
             gap_days == (next_date - current) - 1
             here == IF GapExceeds(gap_days, threshold)
                     THEN << [start |-> current, end |-> next_date, days |-> gap_days,
                              commits_before |-> counts[current],
                              commits_after |-> counts[next_date]] >>
                     ELSE <<>>
         IN  here \o GapsFrom(all_dates, counts, threshold, i + 1)

\* lines 111-126
FindGaps(counts, threshold) == GapsFrom(SortedDates(DOMAIN counts), counts, threshold, 1)

\* lines 407-412: analyze_contributions, and the return of run when it gives None
Analyze ==
    /\ pc = "analyze"
    /\ date_counts' = DateCounts(commits_by_date)
    /\ IF DOMAIN date_counts' = {}
       THEN /\ pc' = "returned"
            /\ outcome' = "no_analysis"
            /\ gaps' = gaps
       ELSE /\ pc' = "plan"
            /\ outcome' = outcome
            /\ gaps' = FindGaps(date_counts', max_gap_days)
    /\ UNCHANGED << configVars, runVars, commits_by_date, planVars, rng, files,
                    run_no, prev, collectVars >>

\* ------------------------------------------- create_redistribution_plan
PlanEntryMidnight(c, date) ==
    [old_date |-> c.date, new_date |-> CombineMidnight(date, c.date),
     repo |-> c.repo, message |-> c.message]

\* lines 182-192: the plan's entry for commit c put on `date`
PlanEntry(c, date) ==
    [old_date |-> c.date, new_date |-> Combine(date, c.date),
     repo |-> c.repo, message |-> c.message]

\* lines 181-192: plan[commit['hash']] = ... for each commit of the day, in order
RECURSIVE AssignDay(_, _, _)
AssignDay(p, day_commits, date) ==
    IF day_commits = <<>> THEN p
    ELSE LET c == Head(day_commits)
             q == [h \in (DOMAIN p) \cup {c.hash} |->
                     IF h = c.hash THEN PlanEntry(c, date) ELSE p[h]]
         IN  AssignDay(q, Tail(day_commits), date)

\* line 174
ActualCount(target_count, pool) == Min(target_count, Len(pool))

\* line 178: pool[:n]
TakeFront(pool, n) == SubSeq(pool, 1, Min(n, Len(pool)))

DropFrontKeep(pool, n) == pool

\* line 179: pool[n:]
DropFront(pool, n) == SubSeq(pool, Min(n, Len(pool)) + 1, Len(pool))

\* lines 135-160: the pool sorted, the candidate dates, the empty plan
PlanBegin ==
    /\ pc = "plan"
    /\ run_no' = run_no + 1
    /\ all_commits' = SortByDate(Flatten(commits_by_date))
    /\ IF all_commits' = <<>>
       THEN /\ pc' = "planned"
            /\ ideal_distribution' = <<>>
            /\ commits_to_distribute' = <<>>
       ELSE /\ pc' = "plan_loop"
            /\ ideal_distribution' =
                  DateRange(all_commits'[1].date.day, all_commits'[Len(all_commits')].date.day)
            /\ commits_to_distribute' = all_commits'
    /\ plan' = EmptyPlan
    /\ days' = <<>>
    /\ di' = 1
    /\ UNCHANGED << outcome, configVars, runVars, commits_by_date, analysisVars,
                    rng, files, prev, collectVars >>

\* lines 162-192: one date of the forward pass
PlanDay ==
    /\ pc = "plan_loop"
    /\ di <= Len(ideal_distribution)
    /\ LET date == ideal_distribution[di]
       IN  \E target_count \in SeedAndDraw(rng, date) :
              LET actual_count == ActualCount(target_count, commits_to_distribute)
                  day_commits == IF actual_count > 0
                                 THEN TakeFront(commits_to_distribute, actual_count)
                                 ELSE <<>>
              IN  /\ commits_to_distribute' =
                        IF actual_count > 0
                        THEN DropFront(commits_to_distribute, actual_count)
                        ELSE commits_to_distribute
                  /\ plan' = AssignDay(plan, day_commits, date)
                  /\ days' = Append(days, [date |-> date,
                                           target_count |-> target_count,
                                           actual_count |-> actual_count,
                                           available |-> Len(commits_to_distribute),
                                           day_commits |-> day_commits])
    /\ rng' = RngUnknown
    /\ di' = di + 1
    /\ UNCHANGED << pc, outcome, configVars, runVars, commits_by_date, analysisVars,
                    all_commits, ideal_distribution, files, run_no, prev, collectVars >>

\* line 194: return plan
PlanReturn ==
    /\ pc = "plan_loop"
    /\ di > Len(ideal_distribution)
    /\ pc' = "planned"
    /\ UNCHANGED << outcome, configVars, runVars, commits_by_date, analysisVars,
                    planVars, rng, files, run_no, prev, collectVars >>

\* a second call create_redistribution_plan(date_counts) on the same object
PlanAgain ==
    /\ pc = "planned"
    /\ run_no = 1
    /\ prev' = [plan |-> plan, days |-> days]
    /\ pc' = "plan"
    /\ UNCHANGED << outcome, configVars, runVars, commits_by_date, analysisVars,
                    planVars, rng, files, run_no, collectVars >>

\* ------------------------------------------------- run, after the plan
CheckPlanUnguarded ==
    /\ pc = "planned"
    /\ pc' = "save_log"
    /\ UNCHANGED << outcome, configVars, runVars, commits_by_date, analysisVars,
                    planVars, rng, files, run_no, prev, collectVars >>

\* lines 418-422: the return on an empty plan, else the plan is printed
CheckPlan ==
    /\ pc = "planned"
    /\ IF DOMAIN plan = {}
       THEN pc' = "returned" /\ outcome' = "no_plan"
       ELSE pc' = "save_log" /\ outcome' = outcome
    /\ UNCHANGED << configVars, runVars, commits_by_date, analysisVars,
                    planVars, rng, files, run_no, prev, collectVars >>

\* line 425: save_detailed_log writes redistribution_log.txt
SaveLog ==
    /\ pc = "save_log"
    /\ files' = Append(files, LogFile)
    /\ pc' = "gen_script"
    /\ UNCHANGED << outcome, configVars, runVars, commits_by_date, analysisVars,
                    planVars, rng, run_no, prev, collectVars >>

\* lines 428-435: generate_rewrite_script writes rewrite_history.sh
GenerateScript ==
    /\ pc = "gen_script"
    /\ files' = Append(files, ScriptFile)
    /\ pc' = "done"
    /\ outcome' = "done"
    /\ UNCHANGED << configVars, runVars, commits_by_date, analysisVars,
                    planVars, rng, run_no, prev, collectVars >>

Next ==
    \/ FindRepos
    \/ CollectCommit
    \/ CollectNextRepo
    \/ StoreCommits
    \/ Analyze
    \/ PlanBegin
    \/ PlanDay
    \/ PlanReturn
    \/ CheckPlan
    \/ SaveLog
    \/ GenerateScript

Spec == Init /\ [][Next]_vars

NextTwice == Next \/ PlanAgain

SpecTwice == Init /\ [][NextTwice]_vars

\* ------------------------------------------- analyze_contributions alone
\* the sequences of n dates from lo on that never step down
RECURSIVE NonDecreasing(_, _)
NonDecreasing(n, lo) ==
    IF n = 0 THEN {<<>>}
    ELSE UNION { { <<d>> \o s : s \in NonDecreasing(n - 1, d) } :
                 d \in lo .. (GapFirstDay + GapDays - 1) }

Reversed(s) == [i \in 1 .. Len(s) |-> s[Len(s) + 1 - i]]

\* the pools given to the analysis: one repository whose commits git log
\* lists oldest first or newest first, all made at noon UTC
GapPools ==
    LET up == UNION { NonDecreasing(n, GapFirstDay) : n \in 1 .. GapPool }
    IN  { [i \in 1 .. Len(s) |->
             [hash |-> i, date |-> [day |-> s[i], hour |-> 12, off |-> 0],
              message |-> <<"subject", i>>, email |-> "me", repo |-> 1]] :
          s \in up \cup { Reversed(t) : t \in up } }

InitGap ==
    /\ pc = "analyze"
    /\ outcome = ""
    /\ max_gap_days \in GapThresholds
    /\ github_email = NoEmail
    /\ repos = <<1>>
    /\ ri = 2
    /\ collected \in GapPools
    /\ commits_by_date = <<[repo |-> 1, commits |-> collected]>>
    /\ date_counts = EmptyPlan
    /\ gaps = <<>>
    /\ all_commits = <<>>
    /\ ideal_distribution = <<>>
    /\ di = 1
    /\ commits_to_distribute = <<>>
    /\ plan = EmptyPlan
    /\ days = <<>>
    /\ rng = RngUnknown
    /\ files = <<>>
    /\ run_no = 0
    /\ prev = [plan |-> EmptyPlan, days |-> <<>>]
    /\ git_log = <<>>
    /\ stdout = <<>>
    /\ li = 1
    /\ commits = <<>>

NextGap == Analyze

SpecGap == InitGap /\ [][NextGap]_vars

\* ---------------------------------------------------- get_commits_from_repo
Delimiter == "|"

\* str.lower(), on the letters of the model's addresses
LowerChar(c) ==
    CASE c = "M" -> "m"
      [] c = "E" -> "e"
      [] OTHER -> c

Lower(str) == [i \in 1 .. Len(str) |-> LowerChar(str[i])]

\* the index of the first delimiter of str, 0 when it has none
FirstDelimiter(str) ==
    IF \E i \in 1 .. Len(str) : str[i] = Delimiter
    THEN CHOOSE i \in 1 .. Len(str) :
            /\ str[i] = Delimiter
            /\ \A j \in 1 .. (i - 1) : str[j] # Delimiter
    ELSE 0

\* str.split('|', maxsplit)
RECURSIVE Split(_, _)
Split(str, maxsplit) ==
    LET k == FirstDelimiter(str)
    IN  IF maxsplit = 0 \/ k = 0
        THEN <<str>>
        ELSE <<SubSeq(str, 1, k - 1)>> \o Split(SubSeq(str, k + 1, Len(str)), maxsplit - 1)

\* line 47: --pretty=format:%H|%aI|%s|%ae, the line git log prints for a commit
FormatLine(c) ==
    c.hash \o <<Delimiter>> \o c.date_str \o <<Delimiter>> \o c.subject
        \o <<Delimiter>> \o c.email

\* the text of one entry of the output: a commit's line, or a line as it is
EntryLine(e) == IF e.kind = "commit" THEN FormatLine(e) ELSE e.text

\* line 55: result.stdout.strip().split('\n'), stdout given as its lines:
\* blank lines at both ends go, and an empty text splits into one empty line
RECURSIVE StripLeft(_)
StripLeft(lines) ==
    IF lines # <<>> /\ Head(lines) = <<>> THEN StripLeft(Tail(lines)) ELSE lines

StripSplit(lines) ==
    LET stripped == Reversed(StripLeft(Reversed(StripLeft(lines))))
    IN  IF stripped = <<>> THEN << <<>> >> ELSE stripped

\* line 67: datetime.fromisoformat(date_str.replace('Z', '+00:00'))
FromIsoFormat(date_str) ==
    CASE date_str = <<"2024-01-05T23:00:00+00:00">> ->
            [day |-> Ymd2Ord(2024, 1, 5), hour |-> 23, off |-> 0]
      [] date_str = <<"2024-01-06T01:00:00+14:00">> ->
            [day |-> Ymd2Ord(2024, 1, 6), hour |-> 1, off |-> 14]

\* line 64: the commit is by another author than the configured one
OtherAuthor(author_email, configured) ==
    configured # NoEmail /\ Lower(author_email) # Lower(configured)

HashNames == <<"h1", "h2", "h3", "h4", "h5">>
DateStrings == { <<"2024-01-05T23:00:00+00:00">>, <<"2024-01-06T01:00:00+14:00">> }
Addresses == { <<"m", "e">>, <<"M", "E">>, <<"y", "o", "u">> }
RECURSIVE Texts(_)
Texts(n) ==
    IF n = 0 THEN {<<>>}
    ELSE Texts(n - 1) \cup { Append(t, ch) : t \in Texts(n - 1), ch \in {"x", Delimiter} }
Subjects == Texts(MaxSubjectLen)
OtherLines == { <<>>, <<"x">>, <<"x", Delimiter, "y">> }

\* the i-th entry of git log's output
LogEntries(i) ==
    { [kind |-> "commit", hash |-> <<HashNames[i]>>, date_str |-> d, subject |-> sub,
       email |-> a, text |-> <<>>] : d \in DateStrings, sub \in Subjects, a \in Addresses }
    \cup { [kind |-> "other", hash |-> <<>>, date_str |-> <<>>, subject |-> <<>>,
            email |-> <<>>, text |-> t] : t \in OtherLines }

RECURSIVE Logs(_)
Logs(n) ==
    IF n = 0 THEN {<<>>}
    ELSE Logs(n - 1) \cup { Append(l, e) : l \in { m \in Logs(n - 1) : Len(m) = n - 1 },
                                            e \in LogEntries(n) }

InitCollect ==
    /\ pc = "parse"
    /\ outcome = ""
    /\ max_gap_days = DefaultMaxGapDays
    /\ github_email \in {NoEmail} \cup { a \in Addresses : Len(a) = 2 }
    /\ repos = <<1>>
    /\ ri = 1
    /\ collected = <<>>
    /\ commits_by_date = <<>>
    /\ date_counts = EmptyPlan
    /\ gaps = <<>>
    /\ all_commits = <<>>
    /\ ideal_distribution = <<>>
    /\ di = 1
    /\ commits_to_distribute = <<>>
    /\ plan = EmptyPlan
    /\ days = <<>>
    /\ rng = RngUnknown
    /\ files = <<>>
    /\ run_no = 0
    /\ prev = [plan |-> EmptyPlan, days |-> <<>>]
    /\ git_log \in Logs(MaxLines)
    /\ stdout = StripSplit([i \in 1 .. Len(git_log) |-> EntryLine(git_log[i])])
    /\ li = 1
    /\ commits = <<>>

collectFrame ==
    << outcome, configVars, runVars, commits_by_date, analysisVars, planVars, rng,
       files, run_no, prev, git_log, stdout >>

\* lines 56-57: an empty line
SkipEmptyLine ==
    /\ pc = "parse"
    /\ li <= Len(stdout)
    /\ stdout[li] = <<>>
    /\ li' = li + 1
    /\ UNCHANGED << pc, commits, collectFrame >>

\* lines 59-60: fewer than four fields
SkipMalformedLine ==
    /\ pc = "parse"
    /\ li <= Len(stdout)
    /\ stdout[li] # <<>>
    /\ Len(Split(stdout[li], SplitMax)) < FieldCount
    /\ li' = li + 1
    /\ UNCHANGED << pc, commits, collectFrame >>

\* lines 61-65: a record of another author
SkipOtherAuthor ==
    /\ pc = "parse"
    /\ li <= Len(stdout)
    /\ stdout[li] # <<>>
    /\ LET parts == Split(stdout[li], SplitMax)
       IN  /\ Len(parts) >= FieldCount
           /\ OtherAuthor(parts[4], github_email)
    /\ li' = li + 1
    /\ UNCHANGED << pc, commits, collectFrame >>

\* lines 61-76: the record is kept
AppendCommit ==
    /\ pc = "parse"
    /\ li <= Len(stdout)
    /\ stdout[li] # <<>>
    /\ LET parts == Split(stdout[li], SplitMax)
       IN  /\ Len(parts) >= FieldCount
           /\ ~OtherAuthor(parts[4], github_email)
           /\ commits' = Append(commits,
                 [hash |-> parts[1], date |-> FromIsoFormat(parts[2]),
                  message |-> parts[3], email |-> parts[4], repo |-> repos[ri]])
    /\ li' = li + 1
    /\ UNCHANGED << pc, collectFrame >>

\* line 78: return commits
ReturnCommits ==
    /\ pc = "parse"
    /\ li > Len(stdout)
    /\ pc' = "parsed"
    /\ UNCHANGED << li, commits, collectFrame >>

NextCollect ==
    \/ SkipEmptyLine
    \/ SkipMalformedLine
    \/ SkipOtherAuthor
    \/ AppendCommit
    \/ ReturnCommits

SpecCollect == InitCollect /\ [][NextCollect]_vars

\* ================================================================ claims
\* create_redistribution_plan has returned (the plan variables hold its result)
Planned ==
    \/ pc \in {"planned", "save_log", "gen_script", "done"}
    \/ pc = "returned" /\ outcome = "no_plan"

RECURSIVE SumActual(_)
SumActual(ds) ==
    IF ds = <<>> THEN 0 ELSE Head(ds).actual_count + SumActual(Tail(ds))

RECURSIVE SumTarget(_)
SumTarget(ds) ==
    IF ds = <<>> THEN 0 ELSE Head(ds).target_count + SumTarget(Tail(ds))

RECURSIVE TakenCommits(_)
TakenCommits(ds) ==
    IF ds = <<>> THEN <<>> ELSE Head(ds).day_commits \o TakenCommits(Tail(ds))

Occurrences(s, x) == Cardinality({ i \in DOMAIN s : s[i] = x })

IsPermutation(s, t) ==
    /\ Len(s) = Len(t)
    /\ \A i \in DOMAIN s : Occurrences(s, s[i]) = Occurrences(t, s[i])

InPlan(c) == c.hash \in DOMAIN plan

\* C1: for a non-empty pool, the commits handed out day by day are distinct
\* positions of the pool (a prefix of it, each taken once), the plan holds at
\* most one entry per commit, the number of commits handed out and the number
\* of plan entries are at most the pool size, and all of the pool is handed
\* out only if the sum of the target counts of all candidate dates is at
\* least the pool size.
C1_PlannedAtMostOnce ==
    (Planned /\ collected # <<>>) =>
        LET taken == TakenCommits(days)
        IN  /\ IsPermutation(all_commits, collected)
            /\ Len(taken) <= Len(all_commits)
            /\ taken = SubSeq(all_commits, 1, Len(taken))
            /\ SumActual(days) = Len(taken)
            /\ DOMAIN plan = { taken[i].hash : i \in DOMAIN taken }
            /\ Cardinality(DOMAIN plan) <= SumActual(days)
            /\ SumActual(days) <= Len(collected)
            /\ (SumActual(days) = Len(collected) => SumTarget(days) >= Len(collected))
            /\ (Cardinality(DOMAIN plan) = Len(collected) => SumTarget(days) >= Len(collected))

\* C1 witness: a pool of three commits of which only two are planned, the
\* total demand of the candidate dates being two
C1_Witness ==
    /\ Planned
    /\ Len(collected) = 3
    /\ SumTarget(days) = 2
    /\ Cardinality(DOMAIN plan) = 2

\* C2: of two planned commits of the pool, the one with the earlier original
\* timestamp is assigned a calendar date that is not later than the other's.
C2_DateOrderPreserved ==
    Planned =>
        \A i, j \in DOMAIN collected :
            ( /\ InPlan(collected[i])
              /\ InPlan(collected[j])
              /\ Instant(collected[i].date) < Instant(collected[j].date) )
            => plan[collected[i].hash].new_date.day <= plan[collected[j].hash].new_date.day

\* C2 witness: the pool was collected out of chronological order and the two
\* commits were planned on different dates
C2_Witness ==
    /\ Planned
    /\ \E i, j \in DOMAIN collected :
          /\ i < j
          /\ Instant(collected[j].date) < Instant(collected[i].date)
          /\ InPlan(collected[i])
          /\ InPlan(collected[j])
          /\ plan[collected[j].hash].new_date.day < plan[collected[i].hash].new_date.day

\* C3: a second call of create_redistribution_plan on the same pool, begun
\* with the generator in whatever state the first call left it, returns the
\* same plan and the same per-day count vector, and a date is given the same
\* target count in both calls.
C3_Deterministic ==
    (Planned /\ run_no = 2) =>
        /\ plan = prev.plan
        /\ Len(days) = Len(prev.days)
        /\ \A i \in DOMAIN days :
              /\ days[i].date = prev.days[i].date
              /\ days[i].actual_count = prev.days[i].actual_count
        /\ \A i \in DOMAIN days, j \in DOMAIN prev.days :
              days[i].date = prev.days[j].date
              => days[i].target_count = prev.days[j].target_count

\* C3 witness: the second call has returned a plan that spreads the pool over
\* two dates
C3_Witness ==
    /\ Planned
    /\ run_no = 2
    /\ \E i, j \in DOMAIN days : i # j /\ days[i].actual_count > 0 /\ days[j].actual_count > 0

\* C4: every entry of the plan is the entry of a commit of the pool, with
\* that commit's original timestamp, repository and message, and its new
\* timestamp has the original's time of day and UTC offset; the stored pool
\* is left as it was collected.
C4_TimeOfDayPreserved ==
    Planned =>
        /\ \A h \in DOMAIN plan :
              \E i \in DOMAIN collected :
                 /\ collected[i].hash = h
                 /\ plan[h].old_date = collected[i].date
                 /\ plan[h].new_date.hour = collected[i].date.hour
                 /\ plan[h].new_date.off = collected[i].date.off
                 /\ plan[h].repo = collected[i].repo
                 /\ plan[h].message = collected[i].message
        /\ Flatten(commits_by_date) = collected

\* C4 witness: a commit made at 23:00 is moved to another date
C4_Witness ==
    /\ Planned
    /\ \E h \in DOMAIN plan :
          /\ plan[h].old_date.hour = 23
          /\ plan[h].new_date.day # plan[h].old_date.day

\* C5: for a non-empty pool the candidate range is not empty, runs from the
\* earliest commit's date to the latest commit's date, and the plan has at
\* least one entry, so that run never ends on the empty-plan branch; a pool
\* of one commit gives a range of one day and a plan of one entry.
C5_NonEmptyPlan ==
    (Planned /\ collected # <<>>) =>
        /\ ideal_distribution # <<>>
        /\ DOMAIN plan # {}
        /\ outcome # "no_plan"
        /\ Len(collected) = 1 =>
              (Len(ideal_distribution) = 1 /\ Cardinality(DOMAIN plan) = 1)

\* C9: in every state of the forward pass, the dates processed are the
\* candidate dates in ascending order from the earliest commit's date, each
\* received min(target_count, remaining pool size) commits from the front of
\* the sorted pool with target_count in 6..10 on Saturday and Sunday and in
\* 2..6 otherwise, a date that received fewer commits than its target is
\* followed only by dates that received none, and the dates that received
\* commits form a prefix of the candidate range.
C9_ForwardPass ==
    (pc = "plan_loop" \/ (Planned /\ collected # <<>>)) =>
        /\ \A i, j \in DOMAIN all_commits :
              i < j => Instant(all_commits[i].date) <= Instant(all_commits[j].date)
        /\ Len(days) <= Len(ideal_distribution)
        /\ \A i \in DOMAIN days :
              LET before == SumActual(SubSeq(days, 1, i - 1))
                  remaining == Len(all_commits) - before
                  d == days[i]
                  saturday == Ymd2Ord(2024, 1, 6)
                  weekend == (d.date - saturday) % 7 \in {0, 1}
              IN  /\ d.date = all_commits[1].date.day + (i - 1)
                  /\ d.date = ideal_distribution[i]
                  /\ d.target_count \in (IF weekend THEN 6 .. 10 ELSE 2 .. 6)
                  /\ d.actual_count = Min(d.target_count, remaining)
                  /\ d.day_commits = SubSeq(all_commits, before + 1, before + d.actual_count)
                  /\ d.actual_count < d.target_count =>
                        /\ before + d.actual_count = Len(all_commits)
                        /\ \A j \in DOMAIN days : j > i => days[j].actual_count = 0
                  /\ \A j \in DOMAIN days :
                        (j < i /\ d.actual_count > 0) => days[j].actual_count > 0
        /\ commits_to_distribute =
              SubSeq(all_commits, SumActual(days) + 1, Len(all_commits))

\* C9 witness: a date received some commits but fewer than its target, and a
\* later candidate date received none
C9_Witness ==
    /\ Planned
    /\ \E i, j \in DOMAIN days :
          /\ i < j
          /\ days[i].actual_count > 0
          /\ days[i].actual_count < days[i].target_count
          /\ days[j].actual_count = 0

\* C10 (as claimed): of two planned commits, the one with the earlier original
\* timestamp has a new timestamp that is not later than the other's.
C10_TimestampOrderPreserved ==
    Planned =>
        \A i, j \in DOMAIN collected :
            ( /\ InPlan(collected[i])
              /\ InPlan(collected[j])
              /\ Instant(collected[i].date) < Instant(collected[j].date) )
            => Instant(plan[collected[i].hash].new_date)
                  <= Instant(plan[collected[j].hash].new_date)

\* the time of day as the instant sees it: local hour less UTC offset
UtcClock(ts) == ts.hour - ts.off

\* C10 (amended): of two planned commits, the one with the earlier original
\* timestamp has a new timestamp that is not later than the other's whenever
\* its time of day, less its UTC offset, is not later than the other's.
C10_OrderPreservedWhenClockOrdered ==
    Planned =>
        \A i, j \in DOMAIN collected :
            ( /\ InPlan(collected[i])
              /\ InPlan(collected[j])
              /\ Instant(collected[i].date) < Instant(collected[j].date)
              /\ UtcClock(collected[i].date) <= UtcClock(collected[j].date) )
            => Instant(plan[collected[i].hash].new_date)
                  <= Instant(plan[collected[j].hash].new_date)

\* C10 witness: two commits made on different days, the earlier at the
\* earlier time of day, are planned on the same date
C10_Witness ==
    /\ Planned
    /\ \E i, j \in DOMAIN collected :
          /\ InPlan(collected[i])
          /\ InPlan(collected[j])
          /\ collected[i].date.day < collected[j].date.day
          /\ UtcClock(collected[i].date) < UtcClock(collected[j].date)
          /\ plan[collected[i].hash].new_date.day = plan[collected[j].hash].new_date.day

\* C7: the files written are none, the log, or the log then the script; a
\* file is written only when repositories were found, the pool was not empty
\* and the plan is not empty; a run that returned early wrote no file, and
\* returned for the reason it reports.
C7_OutputsOnlyAfterPlan ==
    /\ files \in {<<>>, <<LogFile>>, <<LogFile, ScriptFile>>}
    /\ files # <<>> => (repos # <<>> /\ collected # <<>> /\ DOMAIN plan # {})
    /\ pc = "returned" =>
          /\ files = <<>>
          /\ outcome \in {"no_repos", "no_commits", "no_plan"}
          /\ outcome = "no_repos" => repos = <<>>
          /\ outcome = "no_commits" => (repos # <<>> /\ collected = <<>>)
          /\ outcome = "no_plan" => (collected # <<>> /\ DOMAIN plan = {})
    /\ pc = "done" => files = <<LogFile, ScriptFile>>

\* C7 witness: the run went through and wrote the log, then the script
C7_Witness ==
    /\ pc = "done"
    /\ files = <<LogFile, ScriptFile>>
    /\ DOMAIN plan # {}

\* the commits of the log, in order, whose author is the configured one,
\* letter case ignored
RECURSIVE ByConfiguredAuthor(_, _)
ByConfiguredAuthor(log, configured) ==
    IF log = <<>> THEN <<>>
    ELSE LET e == Head(log)
             keep == e.kind = "commit" /\ Lower(e.email) = Lower(configured)
         IN  (IF keep THEN <<e>> ELSE <<>>) \o ByConfiguredAuthor(Tail(log), configured)

\* C8: with an author email configured, the records returned are, in order,
\* those of the listed commits whose author email equals the configured one
\* ignoring letter case, each with the commit's hash and author email.
C8_ExactlyConfiguredAuthor ==
    (pc = "parsed" /\ github_email # NoEmail) =>
        LET want == ByConfiguredAuthor(git_log, github_email)
        IN  /\ Len(commits) = Len(want)
            /\ \A i \in DOMAIN commits :
                  /\ i <= Len(want)
                  /\ commits[i].hash = want[i].hash
                  /\ commits[i].email = want[i].email

\* the same for logs whose subjects hold no delimiter, with the message as well
C8_WhenSubjectsHaveNoDelimiter ==
    (pc = "parsed" /\ github_email # NoEmail
        /\ \A i \in DOMAIN git_log : FirstDelimiter(git_log[i].subject) = 0) =>
        LET want == ByConfiguredAuthor(git_log, github_email)
        IN  /\ Len(commits) = Len(want)
            /\ \A i \in DOMAIN commits :
                  /\ i <= Len(want)
                  /\ commits[i].hash = want[i].hash
                  /\ commits[i].email = want[i].email
                  /\ commits[i].message = want[i].subject

\* the active dates of the pool and their commit counts, from the pool itself
ActiveDates == { collected[i].date.day : i \in DOMAIN collected }

CommitsOn(d) == Cardinality({ i \in DOMAIN collected : collected[i].date.day = d })

AdjacentActive(a, b) ==
    /\ a \in ActiveDates
    /\ b \in ActiveDates
    /\ a < b
    /\ \A d \in ActiveDates : ~(a < d /\ d < b)

\* C6: the gaps reported are, in ascending order, one for each pair of
\* adjacent active dates with (days between) - 1 > max_gap_days and for no
\* other pair, each with that length and the commit counts of its two bounding
\* dates; counts {2024-01-01: 3, 2024-01-10: 2} with threshold 7 give exactly
\* one gap, of 8 days.
C6_GapDetection ==
    (pc = "plan" /\ run_no = 0) =>
        LET expected ==
               { [start |-> a, end |-> b, days |-> (b - a) - 1,
                  commits_before |-> CommitsOn(a), commits_after |-> CommitsOn(b)] :
                 <<a, b>> \in { pr \in ActiveDates \X ActiveDates :
                                  /\ AdjacentActive(pr[1], pr[2])
                                  /\ (pr[2] - pr[1]) - 1 > max_gap_days } }
           jan1 == Ymd2Ord(2024, 1, 1)
           jan10 == Ymd2Ord(2024, 1, 10)
        IN  /\ { gaps[i] : i \in DOMAIN gaps } = expected
            /\ Len(gaps) = Cardinality(expected)
            /\ \A i, j \in DOMAIN gaps : i < j => gaps[i].start < gaps[j].start
            /\ ( /\ ActiveDates = {jan1, jan10}
                 /\ CommitsOn(jan1) = 3
                 /\ CommitsOn(jan10) = 2
                 /\ max_gap_days = 7 )
               => (Len(gaps) = 1 /\ gaps[1].days = 8)

\* C6 witness: the analysis of {2024-01-01: 3, 2024-01-10: 2} with threshold 7
\* has reported its one gap
C6_Witness ==
    /\ pc = "plan"
    /\ run_no = 0
    /\ max_gap_days = 7
    /\ ActiveDates = {Ymd2Ord(2024, 1, 1), Ymd2Ord(2024, 1, 10)}
    /\ CommitsOn(Ymd2Ord(2024, 1, 1)) = 3
    /\ CommitsOn(Ymd2Ord(2024, 1, 10)) = 2
    /\ Len(gaps) = 1

=============================================================================
